---- MODULE Spec2Model ----
(***************************************************************************)
(* A model of the notes application: the Pydantic schema that validates    *)
(* note content (app/schemas/note.py), the Note entity                     *)
(* (app/models/note.py), the NoteService that persists notes through a     *)
(* SQLAlchemy session (app/services/note_service.py), the handlers of the  *)
(* web interface (app/routers/web.py) and the session management of        *)
(* app/database.py (get_db, get_db_context).                               *)
(*                                                                         *)
(* Strings are kept run-length encoded: a string is a sequence of runs     *)
(* [ch, n] (n >= 1 copies of the character ch) in which adjacent runs have *)
(* different characters, so that the real length limit of 5000 characters  *)
(* can be exercised.                                                       *)
(***************************************************************************)
EXTENDS Integers, Sequences, FiniteSets, TLC

VARIABLES
    vInput,     \* schema validation: the value passed as content=...
    vResult,    \* schema validation: outcome of NoteCreate(...) / NoteUpdate(...)
    store,      \* the committed rows of table "notes": id -> row
    clock,      \* the store's clock
    usedIds,    \* the ids uuid4 has handed out so far
    nreq,       \* number of service calls started so far
    sess,       \* per session: the service call in progress (its frame)
    last,       \* the service call that returned or raised in the latest step
    pages,      \* the latest results of get_all_notes (at most two)
    debug,      \* settings.debug
    req,        \* per session: the web request the session was opened for
    ctx         \* the with-statement that uses get_db_context

vars == <<vInput, vResult, store, clock, usedIds, nreq, sess, last, pages, debug, req,
          ctx>>

svcVars == <<store, clock, usedIds, nreq, sess, last>>

webVars == <<pages, debug, req, ctx>>

----------------------------------------------------------------------------
(* Bounds *)

MaxRuns == 3
MaxRequests == 3
MaxClock == 1
MaxNotes == 2

----------------------------------------------------------------------------
(* Strings *)

Whitespace == {" ", "\n"}
Chars == {"x"} \cup Whitespace

min_length == 1
max_length == 5000
validator_limit == 5000

RunLens == {1, 2, max_length - 1, max_length, max_length + 1}
Runs == [ch : Chars, n : RunLens]

Canonical(s) == \A i \in 1..(Len(s) - 1) : s[i].ch # s[i + 1].ch

Strings == {s \in UNION {[1..k -> Runs] : k \in 0..MaxRuns} : Canonical(s)}

RECURSIVE len(_)
len(s) == IF s = <<>> THEN 0 ELSE Head(s).n + len(Tail(s))

RECURSIVE lstrip(_)
lstrip(s) ==
    IF s = <<>> THEN <<>>
    ELSE IF Head(s).ch \in Whitespace THEN lstrip(Tail(s)) ELSE s

RECURSIVE rstrip(_)
rstrip(s) ==
    IF s = <<>> THEN <<>>
    ELSE IF s[Len(s)].ch \in Whitespace
         THEN rstrip(SubSeq(s, 1, Len(s) - 1)) ELSE s

strip(s) == rstrip(lstrip(s))

\* Python truthiness of a str: the empty string is falsy
truthy(s) == s # <<>>

----------------------------------------------------------------------------
(* Schema validation: app/schemas/note.py *)

\* the outcome of constructing a schema object: the validated content, or
\* the list of errors of the ValidationError (value is then unused)
Ok(v) == [ok |-> TRUE, value |-> v, errors |-> <<>>]
Err(type, msg) ==
    [ok |-> FALSE, value |-> <<>>,
     errors |-> << [type |-> type, loc |-> "content", msg |-> msg] >>]

\* validate_content returning the raw value instead of the cleaned one
validate_content_unstripped(v) ==
    IF ~truthy(v) \/ ~truthy(strip(v))
    THEN Err("value_error", "Note content cannot be empty or whitespace only")
    ELSE IF len(strip(v)) > validator_limit
         THEN Err("value_error", "Note content cannot exceed 5000 characters")
         ELSE Ok(v)

\* validate_content testing only "not v"
validate_content_no_blank_check(v) ==
    IF ~truthy(v)
    THEN Err("value_error", "Note content cannot be empty or whitespace only")
    ELSE LET cleaned == strip(v) IN
         IF len(cleaned) > validator_limit
         THEN Err("value_error", "Note content cannot exceed 5000 characters")
         ELSE Ok(cleaned)

\* the body of the field validator (runs after the Field constraints)
validate_content(v) ==
    IF ~truthy(v) \/ ~truthy(strip(v))
    THEN Err("value_error", "Note content cannot be empty or whitespace only")
    ELSE LET cleaned == strip(v) IN
         IF len(cleaned) > validator_limit
         THEN Err("value_error", "Note content cannot exceed 5000 characters")
         ELSE Ok(cleaned)

\* NoteBase with the length limit off by one (>= instead of >)
NoteBase_exclusive_limit(v) ==
    IF len(v) < min_length
    THEN Err("string_too_short", "String should have at least 1 character")
    ELSE IF len(v) >= max_length
    THEN Err("string_too_long", "String should have at most 5000 characters")
    ELSE validate_content(v)

\* content: str = Field(min_length=1, max_length=5000) followed by the
\* field validator; the validator only runs when the constraints passed
NoteBase(v) ==
    IF len(v) < min_length
    THEN Err("string_too_short", "String should have at least 1 character")
    ELSE IF len(v) > max_length
    THEN Err("string_too_long", "String should have at most 5000 characters")
    ELSE validate_content(v)

\* NoteCreate accepting any string as it is
NoteCreate_unvalidated(v) == Ok(v)

NoteCreate(v) == NoteBase(v)
\* NoteUpdate accepting any string as it is
NoteUpdate_unvalidated(v) == Ok(v)

NoteUpdate(v) == NoteBase(v)

----------------------------------------------------------------------------
(* The store and the sessions *)

\* two requests, each with its own session (get_db), may be in progress
Sessions == {"s1", "s2"}
Ids == 1..MaxNotes

\* Python's None for an id and for a timestamp
NoneId == 0
NoneTime == 0 - 1

\* "no Note" (None where a Note instance is expected)
NoNote == [id |-> NoneId, content |-> <<>>, created_at |-> NoneTime,
           updated_at |-> NoneTime]

NoArg == [id |-> NoneId, raw |-> <<>>, content |-> <<>>]
NoCalls == [add |-> 0, delete |-> 0, commit |-> 0, rollback |-> 0, refresh |-> 0]
NoResult == [kind |-> "none", note |-> NoNote, error |-> ""]
NotValidated == [schema |-> "none", ok |-> FALSE, value |-> <<>>, errors |-> <<>>]

EmptyStore == [i \in {} |-> NoNote]

\* a session on which no service call is running
Idle == [pc |-> "idle", op |-> "none", arg |-> NoArg, obj |-> NoNote,
         loaded |-> NoNote, txStart |-> NoneTime, calls |-> NoCalls]

NoCall == [s |-> "none", op |-> "none", arg |-> NoArg, obj |-> NoNote,
           calls |-> NoCalls, result |-> NoResult]

EmptyService ==
    /\ store = EmptyStore
    /\ clock = 0
    /\ usedIds = {}
    /\ nreq = 0
    /\ sess = [s \in Sessions |-> Idle]
    /\ last = NoCall

\* no web request has been received on the session's slot: no handler, no
\* parameters, no response (no body, no Location header), db.close() not
\* called
NoRequest ==
    [pc |-> "none", handler |-> "none", note_id |-> NoneId, content |-> <<>>,
     branch |-> "try", ops |-> 0, invalid |-> FALSE, failed |-> FALSE,
     status |-> 0, exit |-> "none", message |-> "none", exposes |-> "",
     echo |-> <<>>, closes |-> 0, body |-> "none", location |-> ""]

\* get_db_context is not in use: no block entered, nothing added to its
\* session, no session method called by the context manager
NoContext ==
    [pc |-> "none", runs |-> 0, pending |-> <<>>, block |-> "none", raised |-> "",
     calls |-> <<>>, exit |-> "none"]

NoWeb ==
    /\ pages = <<>>
    /\ debug = TRUE
    /\ req = [s \in Sessions |-> NoRequest]
    /\ ctx = NoContext

----------------------------------------------------------------------------
(* Specification of the schema alone: any value is handed to NoteCreate or *)
(* to NoteUpdate.                                                          *)

ValidateInit ==
    /\ vInput \in Strings
    /\ vResult = NotValidated
    /\ EmptyService
    /\ NoWeb

Validate_NoteCreate ==
    /\ vResult.schema = "none"
    /\ vResult' = [schema |-> "NoteCreate"] @@ NoteCreate(vInput)
    /\ UNCHANGED <<vInput, svcVars, webVars>>

Validate_NoteUpdate ==
    /\ vResult.schema = "none"
    /\ vResult' = [schema |-> "NoteUpdate"] @@ NoteUpdate(vInput)
    /\ UNCHANGED <<vInput, svcVars, webVars>>

ValidateNext == Validate_NoteCreate \/ Validate_NoteUpdate

SpecValidate == ValidateInit /\ [][ValidateNext]_vars

----------------------------------------------------------------------------
(* The Note entity: app/models/note.py *)

\* a row whose updated_at lags behind its created_at
Row_updated_before_created(content, ts) ==
    [content |-> content, created_at |-> ts, updated_at |-> ts - 1]

\* a row as the INSERT writes it: both timestamps from the same now()
Row(content, ts) == [content |-> content, created_at |-> ts, updated_at |-> ts]

NoteOf(id, row) ==
    [id |-> id, content |-> row.content, created_at |-> row.created_at,
     updated_at |-> row.updated_at]

\* Note(content=...) built without its content
Note_without_content(content) ==
    [id |-> NoneId, content |-> <<>>, created_at |-> NoneTime,
     updated_at |-> NoneTime]

\* Note(content=...): a new instance; id and timestamps are not set before
\* the INSERT
Note(content) ==
    [id |-> NoneId, content |-> content, created_at |-> NoneTime,
     updated_at |-> NoneTime]

\* update_content accepting the new content without assigning it
update_content_keeping_old(note, new_content) ==
    IF ~truthy(new_content) \/ ~truthy(strip(new_content))
    THEN [ok |-> FALSE, note |-> note]
    ELSE [ok |-> TRUE, note |-> note]

\* update_content assigning before it checks
update_content_assigning_first(note, new_content) ==
    IF ~truthy(new_content) \/ ~truthy(strip(new_content))
    THEN [ok |-> FALSE, note |-> [note EXCEPT !.content = strip(new_content)]]
    ELSE [ok |-> TRUE, note |-> [note EXCEPT !.content = strip(new_content)]]

\* Note.update_content: raises ValueError (ok = FALSE) on blank content,
\* otherwise assigns the stripped content
update_content(note, new_content) ==
    IF ~truthy(new_content) \/ ~truthy(strip(new_content))
    THEN [ok |-> FALSE, note |-> note]
    ELSE [ok |-> TRUE, note |-> [note EXCEPT !.content = strip(new_content)]]

\* uuid4 handing out the same value again
uuid4_repeating(used) == {i \in Ids : \A j \in Ids : i <= j}

\* default=uuid.uuid4: an id that was never handed out before (ids are
\* opaque, so the next unused one stands for any fresh value)
uuid4(used) == {i \in Ids \ used : \A j \in Ids \ used : i <= j}

\* func.now() evaluated by a statement of session s: the statement's time
\* or the time at which the session's transaction began, depending on the
\* database behind the engine
Now(s) == {clock} \cup ({sess[s].txStart} \ {NoneTime})

\* an INSERT that leaves the timestamps unset
FlushInsert_without_timestamps(st, id, content, ts) ==
    (id :> Row(content, NoneTime)) @@ st

\* INSERT INTO notes: id from the Python-side default, both timestamps from
\* server_default=func.now()
FlushInsert(st, id, content, ts) == (id :> Row(content, ts)) @@ st

\* an UPDATE that also resets created_at
FlushUpdate_resetting_created_at(st, note, ts) ==
    [st EXCEPT ![note.id] = Row(note.content, ts)]

\* an UPDATE that leaves updated_at alone (no onupdate)
FlushUpdate_without_onupdate(st, note, ts) ==
    [st EXCEPT ![note.id] = [@ EXCEPT !.content = note.content]]

\* UPDATE notes SET content=..., updated_at=now() WHERE id = ...
\* (onupdate=func.now(); created_at is not part of the statement)
FlushUpdate(st, note, ts) ==
    [st EXCEPT ![note.id] = [@ EXCEPT !.content = note.content, !.updated_at = ts]]

\* DELETE FROM notes without its WHERE clause
FlushDelete_every_row(st, id) == [i \in {} |-> st[i]]

\* DELETE FROM notes WHERE id = ...
FlushDelete(st, id) == [i \in DOMAIN st \ {id} |-> st[i]]

----------------------------------------------------------------------------
(* The service: app/services/note_service.py *)

Called(c, m) == [c EXCEPT ![m] = @ + 1]
Returned(kind, note) == [kind |-> kind, note |-> note, error |-> ""]
Raised(e) == [kind |-> "raise", note |-> NoNote, error |-> e]

\* the query without its filter: the first row of the table
get_note_by_id_unfiltered(st, note_id) ==
    IF DOMAIN st = {} THEN NoNote
    ELSE LET first == CHOOSE i \in DOMAIN st : \A j \in DOMAIN st : i <= j
         IN  NoteOf(first, st[first])

\* self.db.query(Note).filter(Note.id == note_id).first()
get_note_by_id(st, note_id) ==
    IF note_id \in DOMAIN st THEN NoteOf(note_id, st[note_id]) ELSE NoNote

\* the handler without its rollback
except_SQLAlchemyError_no_rollback(c, e) ==
    [calls |-> c, result |-> Raised(e)]

\* except SQLAlchemyError as e: self.db.rollback(); raise e
except_SQLAlchemyError(c, e) ==
    [calls |-> Called(c, "rollback"), result |-> Raised(e)]

\* the raw strings callers submit as note content
RawInputs ==
    { << [ch |-> " ", n |-> 1], [ch |-> "x", n |-> 1], [ch |-> "\n", n |-> 2] >>,
      << [ch |-> "x", n |-> 1], [ch |-> " ", n |-> 2], [ch |-> "x", n |-> 1] >> }

\* creations that have been started and will still ask uuid4 for an id
PendingCreates ==
    {t \in Sessions : sess[t].op = "create_note" /\ sess[t].pc = "commit"}

\* a request starts a service call on a session of its own (get_db)
Began(s) ==
    /\ sess[s].pc = "idle"
    /\ nreq < MaxRequests
    /\ nreq' = nreq + 1

\* the call goes on: frame f is where it stands
Continue(s, f) ==
    /\ sess' = [sess EXCEPT ![s] = f]
    /\ last' = NoCall

\* a return that ends the calls of all sessions
Leave_closing_every_session(s, f, c, r) ==
    /\ sess' = [t \in Sessions |-> Idle]
    /\ last' = [s |-> s, op |-> f.op, arg |-> f.arg, obj |-> f.obj, calls |-> c,
                result |-> r]

\* the call of frame f returns or raises r after the session calls c
Leave(s, f, c, r) ==
    /\ sess' = [sess EXCEPT ![s] = Idle]
    /\ last' = [s |-> s, op |-> f.op, arg |-> f.arg, obj |-> f.obj, calls |-> c,
                result |-> r]

\* except SQLAlchemyError as e: self.db.rollback(); raise e
Except(s, f, c, e) ==
    LET h == except_SQLAlchemyError(c, e) IN Leave(s, f, h.calls, h.result)

\* create_note up to (not including) self.db.commit()
call_create_note(s, raw) ==
    /\ Began(s)
    /\ NoteCreate(raw).ok
    /\ Cardinality(usedIds) + Cardinality(PendingCreates) < MaxNotes
    /\ LET note_data == NoteCreate(raw).value
           db_note == Note(note_data)
           c == Called(NoCalls, "add")
           f == [Idle EXCEPT !.pc = "commit", !.op = "create_note",
                             !.arg = [id |-> NoneId, raw |-> raw, content |-> note_data],
                             !.obj = db_note, !.calls = c]
       IN  \/ Continue(s, f)
           \/ Except(s, f, c, "OperationalError")
    /\ UNCHANGED <<vInput, vResult, store, clock, usedIds>>

\* create_note: self.db.commit()
commit_create_note(s) ==
    /\ sess[s].pc = "commit" /\ sess[s].op = "create_note"
    /\ LET f == sess[s]
           c == Called(f.calls, "commit")
       IN  \/ \E id \in uuid4(usedIds) :
                 /\ store' = FlushInsert(store, id, f.obj.content, clock)
                 /\ usedIds' = usedIds \cup {id}
                 /\ Continue(s, [f EXCEPT !.pc = "refresh", !.obj.id = id,
                                          !.txStart = clock, !.calls = c])
           \/ /\ Except(s, f, c, "OperationalError")
              /\ UNCHANGED <<store, usedIds>>
    /\ UNCHANGED <<vInput, vResult, clock, nreq>>

\* the errors self.db.refresh(db_note) can raise (all are SQLAlchemyError)
RefreshErrors(st, note_id) ==
    {"OperationalError"} \cup
    (IF note_id \in DOMAIN st THEN {} ELSE {"InvalidRequestError"})

\* create_note and update_note: self.db.refresh(db_note); return db_note
refresh(s) ==
    /\ sess[s].pc = "refresh"
    /\ LET f == sess[s]
           c == Called(f.calls, "refresh")
           db_note == get_note_by_id(store, f.obj.id)
       IN  \/ /\ f.obj.id \in DOMAIN store
              /\ Leave(s, [f EXCEPT !.obj = db_note], c, Returned("Note", db_note))
           \/ \E e \in RefreshErrors(store, f.obj.id) : Except(s, f, c, e)
    /\ UNCHANGED <<vInput, vResult, store, clock, usedIds, nreq>>

\* get_note_by_id wrapped in the handler of the write operations
call_get_note_by_id_with_rollback(s, note_id) ==
    /\ Began(s)
    /\ LET db_note == get_note_by_id(store, note_id)
           f == [Idle EXCEPT !.op = "get_note_by_id", !.arg.id = note_id]
       IN  \/ Leave(s, [f EXCEPT !.obj = db_note], NoCalls,
                    Returned(IF db_note = NoNote THEN "None" ELSE "Note", db_note))
           \/ Except(s, f, NoCalls, "OperationalError")
    /\ UNCHANGED <<vInput, vResult, store, clock, usedIds>>

\* get_note_by_id called on its own
call_get_note_by_id(s, note_id) ==
    /\ Began(s)
    /\ LET db_note == get_note_by_id(store, note_id)
           f == [Idle EXCEPT !.op = "get_note_by_id", !.arg.id = note_id]
       IN  \/ Leave(s, [f EXCEPT !.obj = db_note], NoCalls,
                    Returned(IF db_note = NoNote THEN "None" ELSE "Note", db_note))
           \/ Leave(s, f, NoCalls, Raised("OperationalError"))
    /\ UNCHANGED <<vInput, vResult, store, clock, usedIds>>

\* get_all_notes(self, skip: int = 0, limit: int = 100)
default_skip == 0
default_limit == 100

\* the values callers pass as skip and as limit: a first page, the page
\* after it and an offset past the last row; one row per page or the default
Skips == {default_skip, 1, MaxNotes}
Limits == {0, 1, default_limit}

\* the query has no ORDER BY: the store may produce the rows in any order
Orders(st) ==
    {o \in [1..Cardinality(DOMAIN st) -> DOMAIN st] :
        \A i, j \in DOMAIN o : o[i] = o[j] => i = j}

\* .offset(skip): the rows after the first skip ones
offset(rows, skip) ==
    IF skip >= Len(rows) THEN <<>> ELSE SubSeq(rows, skip + 1, Len(rows))

\* .limit(limit): at most the first limit rows
limit(rows, n) ==
    IF n >= Len(rows) THEN rows ELSE SubSeq(rows, 1, n)

\* the query without its offset
get_all_notes_without_offset(st, order, skip, lim) ==
    limit([k \in 1..Len(order) |-> NoteOf(order[k], st[order[k]])], lim)

\* self.db.query(Note).offset(skip).limit(limit).all(), the store producing
\* its rows in the given order
get_all_notes(st, order, skip, lim) ==
    limit(offset([k \in 1..Len(order) |-> NoteOf(order[k], st[order[k]])], skip), lim)

\* the result p joins the latest results (the previous one is kept)
Push(ps, p) == IF ps = <<>> THEN <<p>> ELSE <<ps[Len(ps)], p>>

\* get_all_notes called on its own: one query, which may fail
call_get_all_notes(s, skip, lim) ==
    /\ sess[s].pc = "idle"
    /\ LET c == [NoCall EXCEPT !.s = s, !.op = "get_all_notes"]
       IN  \/ \E order \in Orders(store) :
                 /\ pages' = Push(pages, [skip |-> skip, limit |-> lim,
                                          notes |-> get_all_notes(store, order, skip, lim)])
                 /\ last' = [c EXCEPT !.result = Returned("list", NoNote)]
           \/ /\ pages' = pages
              /\ last' = [c EXCEPT !.result = Raised("OperationalError")]
    /\ UNCHANGED <<vInput, vResult, store, clock, usedIds, nreq, sess>>

\* update_note up to (not including) self.db.commit(), given a NoteUpdate
\* whose content is note_data (made from the raw string raw)
update_note(s, note_id, raw, note_data) ==
    /\ Began(s)
    /\ LET db_note == get_note_by_id(store, note_id)
           u == update_content(db_note, note_data)
           f == [Idle EXCEPT !.op = "update_note",
                             !.arg = [id |-> note_id, raw |-> raw, content |-> note_data]]
       IN  \/ /\ db_note = NoNote
              /\ Leave(s, f, NoCalls, Returned("None", NoNote))
           \/ /\ db_note # NoNote
              /\ IF u.ok
                 THEN Continue(s, [f EXCEPT !.pc = "commit", !.obj = u.note,
                                            !.loaded = db_note, !.txStart = clock])
                 ELSE Leave(s, [f EXCEPT !.obj = u.note], NoCalls, Raised("ValueError"))
           \/ Except(s, f, NoCalls, "OperationalError")
    /\ UNCHANGED <<vInput, vResult, store, clock, usedIds>>

\* update_note called with NoteUpdate(content=raw)
call_update_note(s, note_id, raw) ==
    /\ NoteUpdate(raw).ok
    /\ update_note(s, note_id, raw, NoteUpdate(raw).value)

\* update_note called with a NoteUpdate that was not validated
\* (NoteUpdate.model_construct(content=content))
call_update_note_unvalidated(s, note_id, content) ==
    update_note(s, note_id, content, content)

\* the unit of work emits an UPDATE only for an attribute whose value
\* differs from the one the instance was loaded with
Modified(f) == f.obj.content # f.loaded.content

\* the errors self.db.commit() can raise in update_note
UpdateCommitErrors(st, f) ==
    {"OperationalError"} \cup
    (IF Modified(f) /\ f.obj.id \notin DOMAIN st THEN {"StaleDataError"} ELSE {})

\* the commit of update_note writing the note back whether or not its row
\* is still there
commit_update_note_merging(s) ==
    /\ sess[s].pc = "commit" /\ sess[s].op = "update_note"
    /\ LET f == sess[s]
           c == Called(f.calls, "commit")
           g == [f EXCEPT !.pc = "refresh", !.calls = c]
       IN  \/ /\ ~Modified(f)
              /\ Continue(s, g)
              /\ UNCHANGED store
           \/ /\ Modified(f)
              /\ \E ts \in Now(s) :
                    store' = (f.obj.id :> [content |-> f.obj.content,
                                           created_at |-> f.obj.created_at,
                                           updated_at |-> ts]) @@ store
              /\ Continue(s, g)
           \/ /\ Except(s, f, c, "OperationalError")
              /\ UNCHANGED store
    /\ UNCHANGED <<vInput, vResult, clock, usedIds, nreq>>

\* update_note: self.db.commit()
commit_update_note(s) ==
    /\ sess[s].pc = "commit" /\ sess[s].op = "update_note"
    /\ LET f == sess[s]
           c == Called(f.calls, "commit")
           g == [f EXCEPT !.pc = "refresh", !.calls = c]
       IN  \/ /\ ~Modified(f)
              /\ Continue(s, g)
              /\ UNCHANGED store
           \/ /\ Modified(f)
              /\ f.obj.id \in DOMAIN store
              /\ \E ts \in Now(s) : store' = FlushUpdate(store, f.obj, ts)
              /\ Continue(s, g)
           \/ /\ \E e \in UpdateCommitErrors(store, f) : Except(s, f, c, e)
              /\ UNCHANGED store
    /\ UNCHANGED <<vInput, vResult, clock, usedIds, nreq>>

\* delete_note up to (not including) self.db.commit()
call_delete_note(s, note_id) ==
    /\ Began(s)
    /\ LET db_note == get_note_by_id(store, note_id)
           f == [Idle EXCEPT !.op = "delete_note", !.arg.id = note_id]
       IN  \/ /\ db_note = NoNote
              /\ Leave(s, f, NoCalls, Returned("False", NoNote))
           \/ /\ db_note # NoNote
              /\ Continue(s, [f EXCEPT !.pc = "commit", !.obj = db_note,
                                       !.txStart = clock,
                                       !.calls = Called(NoCalls, "delete")])
           \/ Except(s, f, NoCalls, "OperationalError")
    /\ UNCHANGED <<vInput, vResult, store, clock, usedIds>>

\* delete_note: self.db.commit(); return True
commit_delete_note(s) ==
    /\ sess[s].pc = "commit" /\ sess[s].op = "delete_note"
    /\ LET f == sess[s]
           c == Called(f.calls, "commit")
       IN  \/ /\ store' = FlushDelete(store, f.obj.id)
              /\ Leave(s, f, c, Returned("True", NoNote))
           \/ /\ Except(s, f, c, "OperationalError")
              /\ UNCHANGED store
    /\ UNCHANGED <<vInput, vResult, clock, usedIds, nreq>>

\* time passes on the store's clock
Tick ==
    /\ clock < MaxClock
    /\ clock' = clock + 1
    /\ last' = NoCall
    /\ UNCHANGED <<vInput, vResult, store, usedIds, nreq, sess>>

Init ==
    /\ vInput = <<>>
    /\ vResult = NotValidated
    /\ EmptyService
    /\ NoWeb

\* the service used on its own: no web request is involved
Next ==
    \/ Tick /\ UNCHANGED webVars
    \/ \E s \in Sessions : \E raw \in RawInputs :
          call_create_note(s, raw) /\ UNCHANGED webVars
    \/ \E s \in Sessions : commit_create_note(s) /\ UNCHANGED webVars
    \/ \E s \in Sessions : refresh(s) /\ UNCHANGED webVars
    \/ \E s \in Sessions : \E id \in Ids :
          call_get_note_by_id(s, id) /\ UNCHANGED webVars
    \/ \E s \in Sessions : \E id \in Ids : \E raw \in RawInputs :
          call_update_note(s, id, raw) /\ UNCHANGED webVars
    \/ \E s \in Sessions : commit_update_note(s) /\ UNCHANGED webVars
    \/ \E s \in Sessions : \E id \in Ids :
          call_delete_note(s, id) /\ UNCHANGED webVars
    \/ \E s \in Sessions : commit_delete_note(s) /\ UNCHANGED webVars

Spec == Init /\ [][Next]_vars

----------------------------------------------------------------------------
(* Specification of listing: notes are created and get_all_notes is called; *)
(* pages holds the results of up to two calls made in a row, with no other  *)
(* step between them.                                                       *)

NotListing == pages' = <<>> /\ UNCHANGED <<debug, req, ctx>>

\* the content of the notes to list does not matter: one input is enough
ListInputs == {raw \in RawInputs : raw[1].ch \in Whitespace}

ListNext ==
    \/ \E s \in Sessions : \E raw \in ListInputs :
          call_create_note(s, raw) /\ NotListing
    \/ \E s \in Sessions : commit_create_note(s) /\ NotListing
    \/ \E s \in Sessions : refresh(s) /\ NotListing
    \/ \E s \in Sessions : \E skip \in Skips : \E lim \in Limits :
          call_get_all_notes(s, skip, lim) /\ UNCHANGED <<debug, req, ctx>>

SpecList == Init /\ [][ListNext]_vars

----------------------------------------------------------------------------
(* Specification of update_note given data that was not validated: notes   *)
(* are created, and update_note receives any string as content.            *)

\* the contents a NoteUpdate that bypassed validation can carry: nothing,
\* whitespace only, content with surrounding whitespace, clean content
UnvalidatedInputs ==
    { << >>,
      << [ch |-> " ", n |-> 2] >>,
      << [ch |-> " ", n |-> 1], [ch |-> "x", n |-> 1], [ch |-> "\n", n |-> 2] >>,
      << [ch |-> "x", n |-> 2] >> }

UnvalidatedNext ==
    \/ Tick /\ UNCHANGED webVars
    \/ \E s \in Sessions : \E raw \in ListInputs :
          call_create_note(s, raw) /\ UNCHANGED webVars
    \/ \E s \in Sessions : commit_create_note(s) /\ UNCHANGED webVars
    \/ \E s \in Sessions : refresh(s) /\ UNCHANGED webVars
    \/ \E s \in Sessions : \E id \in Ids : \E content \in UnvalidatedInputs :
          call_update_note_unvalidated(s, id, content) /\ UNCHANGED webVars
    \/ \E s \in Sessions : commit_update_note(s) /\ UNCHANGED webVars

SpecUnvalidated == Init /\ [][UnvalidatedNext]_vars

----------------------------------------------------------------------------
(* Specification of reading: notes are created, and both read operations   *)
(* are called with any arguments.                                          *)

ReadNext ==
    \/ ListNext
    \/ \E s \in Sessions : \E id \in Ids :
          call_get_note_by_id(s, id) /\ NotListing

SpecRead == Init /\ [][ReadNext]_vars

----------------------------------------------------------------------------
(* The web interface: app/routers/web.py, app/main.py, get_db of            *)
(* app/database.py.  A request passes through get_db (a session is opened), *)
(* the handler (pc = "handler") and, once the handler has returned or       *)
(* raised (pc = "responded"), the finally clause of get_db (pc = "closed"). *)

\* content: str = Form(..., min_length=1, max_length=10000)
form_min_length == 1
form_max_length == 10000

Form(content) ==
    len(content) >= form_min_length /\ len(content) <= form_max_length

Handlers == {"web_index", "web_notes_create_submit", "web_notes_edit_form",
             "web_notes_edit_submit", "web_notes_delete"}

\* the content a browser submits: valid content with surrounding whitespace,
\* whitespace only, more than max_length characters, nothing
WebInputs ==
    { << [ch |-> " ", n |-> 1], [ch |-> "x", n |-> 1], [ch |-> "\n", n |-> 2] >>,
      << [ch |-> " ", n |-> 2] >>,
      << [ch |-> "x", n |-> max_length + 1] >>,
      << >> }

\* the parameters a request to handler h can carry
Params(h) ==
    [note_id : IF h \in {"web_notes_edit_form", "web_notes_edit_submit",
                         "web_notes_delete"}
               THEN Ids ELSE {NoneId},
     content : IF h \in {"web_notes_create_submit", "web_notes_edit_submit"}
               THEN WebInputs ELSE {<<>>}]

\* the most service calls a handler makes (edit submit: update_note, then
\* get_note_by_id in its except clauses)
MaxCalls(h) ==
    CASE h \in {"web_notes_create_submit", "web_notes_edit_form", "web_notes_delete"} -> 1
      [] h = "web_notes_edit_submit" -> 2
      [] OTHER -> 0

\* service calls and new notes the requests in progress may still need
RECURSIVE Sum(_, _)
Sum(f, S) == IF S = {} THEN 0
             ELSE LET x == CHOOSE x \in S : TRUE IN f[x] + Sum(f, S \ {x})

Reserved ==
    Sum([s \in Sessions |->
            IF req[s].pc = "handler" THEN MaxCalls(req[s].handler) - req[s].ops ELSE 0],
        Sessions)

ReservedNotes ==
    Cardinality({s \in Sessions : /\ req[s].pc = "handler"
                                  /\ req[s].handler = "web_notes_create_submit"
                                  /\ req[s].ops = 0})

\* the handler returns templates.TemplateResponse(...): a rendered page
Response(r, status, message, exposes, echo) ==
    [r EXCEPT !.pc = "responded", !.exit = "return", !.status = status,
              !.message = message, !.exposes = exposes, !.echo = echo,
              !.body = "page"]

\* the handler returns RedirectResponse(url=..., status_code=...)
RedirectResponse(r, url, status) ==
    [r EXCEPT !.pc = "responded", !.exit = "return", !.status = status,
              !.body = "redirect", !.location = url]

\* raise HTTPException(status_code=..., detail=...): FastAPI answers with
\* the status and the detail
HTTPException(r, status, message, exposes) ==
    [r EXCEPT !.pc = "responded", !.exit = "HTTPException", !.status = status,
              !.message = message, !.exposes = exposes, !.body = "json"]

\* the request is rejected before the handler runs (422)
RequestValidationError(r) ==
    [r EXCEPT !.pc = "responded", !.exit = "RequestValidationError",
              !.status = 422, !.message = "validation", !.body = "json"]

\* an exception the handler does not catch: the global exception handler
\* shows str(exc) when settings.debug is set
global_exception_handler(r, exc, dbg) ==
    [r EXCEPT !.pc = "responded", !.exit = "exception", !.status = 500,
              !.message = "Internal Server Error",
              !.exposes = IF dbg THEN exc ELSE "", !.body = "json"]

\* the request r starts a service call
Started(r) == [r EXCEPT !.ops = @ + 1]

\* a step of the web layer that calls no service method
NoServiceCall ==
    /\ last' = NoCall
    /\ UNCHANGED <<vInput, vResult, store, clock, usedIds, nreq, sess>>

\* web_index once get_all_notes has returned or raised (call record res)
web_index_result(r, res) ==
    IF res.result.kind = "raise"
    THEN [HTTPException(r, 500, "Database error", res.result.error)
             EXCEPT !.failed = TRUE]
    ELSE Response(r, 200, "none", "", <<>>)

\* web_notes_create_submit while create_note runs (frame f) and once it has
\* returned or raised (call record res)
web_notes_create_submit_result(r, f, res) ==
    IF f.pc # "idle" THEN r
    ELSE IF res.result.kind = "raise"
    THEN [Response(r, 500, "Failed to create note. Please try again.", "", r.content)
             EXCEPT !.failed = TRUE]
    ELSE RedirectResponse(r, "/", 303)

\* web_notes_edit_form once get_note_by_id has returned or raised
web_notes_edit_form_result(r, f, res) ==
    IF f.pc # "idle" THEN r
    ELSE CASE res.result.kind = "raise" ->
                [HTTPException(r, 500, "Database error", res.result.error)
                    EXCEPT !.failed = TRUE]
           [] res.result.kind = "None" -> HTTPException(r, 404, "not found", "")
           [] OTHER -> Response(r, 200, "none", "", <<>>)

\* web_notes_edit_submit without its check of the note update_note returned
web_notes_edit_submit_result_unchecked(r, f, res) ==
    IF f.pc # "idle" THEN r
    ELSE CASE res.result.kind = "raise" /\ res.result.error = "ValueError" ->
                [r EXCEPT !.branch = "except ValueError", !.invalid = TRUE]
           [] res.result.kind = "raise" /\ res.result.error # "ValueError" ->
                [r EXCEPT !.branch = "except SQLAlchemyError", !.failed = TRUE]
           [] OTHER -> RedirectResponse(r, "/", 303)

\* web_notes_edit_submit while update_note runs and once it has returned or
\* raised: the except clauses are entered, not yet left
web_notes_edit_submit_result(r, f, res) ==
    IF f.pc # "idle" THEN r
    ELSE CASE res.result.kind = "raise" /\ res.result.error = "ValueError" ->
                [r EXCEPT !.branch = "except ValueError", !.invalid = TRUE]
           [] res.result.kind = "raise" /\ res.result.error # "ValueError" ->
                [r EXCEPT !.branch = "except SQLAlchemyError", !.failed = TRUE]
           [] res.result.kind = "None" -> HTTPException(r, 404, "not found", "")
           [] OTHER -> RedirectResponse(r, "/", 303)

\* the except clauses answering 404 when their lookup finds no note
web_notes_edit_submit_except_result_with_404(r, res, dbg) ==
    IF res.result.kind = "raise"
    THEN [global_exception_handler(r, res.result.error, dbg) EXCEPT !.failed = TRUE]
    ELSE IF res.result.kind = "None"
    THEN HTTPException(r, 404, "not found", "")
    ELSE IF r.branch = "except ValueError"
    THEN Response(r, 400, "validation", "", r.content)
    ELSE Response(r, 500, "Failed to update note. Please try again.", "", r.content)

\* the except clauses passing the stripped content to the page
web_notes_edit_submit_except_result_stripped(r, res, dbg) ==
    IF res.result.kind = "raise"
    THEN [global_exception_handler(r, res.result.error, dbg) EXCEPT !.failed = TRUE]
    ELSE IF r.branch = "except ValueError"
    THEN Response(r, 400, "validation", "", strip(r.content))
    ELSE Response(r, 500, "Failed to update note. Please try again.", "",
                  strip(r.content))

\* the except clauses of web_notes_edit_submit once their get_note_by_id
\* has returned or raised; nothing catches what it raises
web_notes_edit_submit_except_result(r, res, dbg) ==
    IF res.result.kind = "raise"
    THEN [global_exception_handler(r, res.result.error, dbg) EXCEPT !.failed = TRUE]
    ELSE IF r.branch = "except ValueError"
    THEN Response(r, 400, "validation", "", r.content)
    ELSE Response(r, 500, "Failed to update note. Please try again.", "", r.content)

\* web_notes_delete rendering a page after a successful deletion
web_notes_delete_result_rendering(r, f, res) ==
    IF f.pc # "idle" THEN r
    ELSE CASE res.result.kind = "raise" ->
                [HTTPException(r, 500, "Database error", res.result.error)
                    EXCEPT !.failed = TRUE]
           [] res.result.kind = "False" -> HTTPException(r, 404, "not found", "")
           [] OTHER -> Response(r, 200, "none", "", <<>>)

\* web_notes_delete while delete_note runs and once it has returned or raised
web_notes_delete_result(r, f, res) ==
    IF f.pc # "idle" THEN r
    ELSE CASE res.result.kind = "raise" ->
                [HTTPException(r, 500, "Database error", res.result.error)
                    EXCEPT !.failed = TRUE]
           [] res.result.kind = "False" -> HTTPException(r, 404, "not found", "")
           [] OTHER -> RedirectResponse(r, "/", 303)

\* the handler of request r sees its service call go on (frame f) or come
\* back (call record res)
Result(r, f, res) ==
    CASE r.handler = "web_notes_create_submit" -> web_notes_create_submit_result(r, f, res)
      [] r.handler = "web_notes_edit_form" -> web_notes_edit_form_result(r, f, res)
      [] r.handler = "web_notes_edit_submit" -> web_notes_edit_submit_result(r, f, res)
      [] r.handler = "web_notes_delete" -> web_notes_delete_result(r, f, res)
      [] OTHER -> r

\* a step of the service call that the handler of session s is waiting for
Handling(s) ==
    /\ req' = [req EXCEPT ![s] = Result(req[s], sess'[s], last')]
    /\ pages' = <<>>
    /\ UNCHANGED <<debug, ctx>>

\* the handler of session s is at the start of h
At(s, h) ==
    /\ req[s].pc = "handler" /\ req[s].handler = h
    /\ req[s].branch = "try" /\ req[s].ops = 0
    /\ sess[s].pc = "idle"

\* db = SessionLocal(); yield db: a request for handler h with parameters p
\* gets its session
get_db(s, h, p) ==
    /\ req[s].pc \in {"none", "closed"}
    /\ sess[s].pc = "idle"
    /\ nreq + Reserved + MaxCalls(h) <= MaxRequests
    /\ h = "web_notes_create_submit" =>
          Cardinality(usedIds) + Cardinality(PendingCreates) + ReservedNotes < MaxNotes
    /\ req' = [req EXCEPT ![s] = [NoRequest EXCEPT !.pc = "handler", !.handler = h,
                                                    !.note_id = p.note_id,
                                                    !.content = p.content]]
    /\ NoServiceCall
    /\ pages' = <<>>
    /\ UNCHANGED <<debug, ctx>>

\* a session left open when the handler did not return normally
close_unless_raised(r) ==
    [NoRequest EXCEPT !.pc = "closed", !.exit = r.exit,
                      !.closes = IF r.exit = "return" THEN r.closes + 1
                                                      ELSE r.closes]

\* finally: db.close()
close(r) ==
    [NoRequest EXCEPT !.pc = "closed", !.exit = r.exit, !.closes = r.closes + 1]

\* the finally clause of get_db, run once the handler has returned or raised
get_db_finally(s) ==
    /\ req[s].pc = "responded"
    /\ req' = [req EXCEPT ![s] = close(req[s])]
    /\ NoServiceCall
    /\ pages' = <<>>
    /\ UNCHANGED <<debug, ctx>>

web_index(s) ==
    /\ At(s, "web_index")
    /\ call_get_all_notes(s, default_skip, default_limit)
    /\ req' = [req EXCEPT ![s] = web_index_result(req[s], last')]
    /\ UNCHANGED <<debug, ctx>>

web_notes_create_submit(s) ==
    /\ At(s, "web_notes_create_submit")
    /\ LET r == req[s] IN
       \/ /\ ~Form(r.content)
          /\ req' = [req EXCEPT ![s] = RequestValidationError(r)]
          /\ NoServiceCall
       \/ /\ Form(r.content)
          /\ \E stripped \in {strip(r.content)} :
                \/ /\ ~NoteCreate(stripped).ok
                   /\ req' = [req EXCEPT ![s] =
                                 [Response(r, 400, "validation", "", r.content)
                                     EXCEPT !.invalid = TRUE]]
                   /\ NoServiceCall
                \/ /\ call_create_note(s, stripped)
                   /\ req' = [req EXCEPT ![s] = Result(Started(r), sess'[s], last')]
    /\ pages' = <<>>
    /\ UNCHANGED <<debug, ctx>>

web_notes_edit_form(s) ==
    /\ At(s, "web_notes_edit_form")
    /\ call_get_note_by_id(s, req[s].note_id)
    /\ req' = [req EXCEPT ![s] = Result(Started(req[s]), sess'[s], last')]
    /\ pages' = <<>>
    /\ UNCHANGED <<debug, ctx>>

web_notes_edit_submit(s) ==
    /\ At(s, "web_notes_edit_submit")
    /\ LET r == req[s] IN
       \/ /\ ~Form(r.content)
          /\ req' = [req EXCEPT ![s] = RequestValidationError(r)]
          /\ NoServiceCall
       \/ /\ Form(r.content)
          /\ \E stripped \in {strip(r.content)} :
                \/ /\ ~NoteUpdate(stripped).ok
                   /\ req' = [req EXCEPT ![s] =
                                 [r EXCEPT !.branch = "except ValueError",
                                           !.invalid = TRUE]]
                   /\ NoServiceCall
                \/ /\ call_update_note(s, r.note_id, stripped)
                   /\ req' = [req EXCEPT ![s] = Result(Started(r), sess'[s], last')]
    /\ pages' = <<>>
    /\ UNCHANGED <<debug, ctx>>

\* except ValueError / except SQLAlchemyError of web_notes_edit_submit
web_notes_edit_submit_except(s) ==
    /\ req[s].pc = "handler" /\ req[s].handler = "web_notes_edit_submit"
    /\ req[s].branch # "try"
    /\ sess[s].pc = "idle"
    /\ call_get_note_by_id(s, req[s].note_id)
    /\ req' = [req EXCEPT ![s] =
                  web_notes_edit_submit_except_result(Started(req[s]), last', debug)]
    /\ pages' = <<>>
    /\ UNCHANGED <<debug, ctx>>

web_notes_delete(s) ==
    /\ At(s, "web_notes_delete")
    /\ call_delete_note(s, req[s].note_id)
    /\ req' = [req EXCEPT ![s] = Result(Started(req[s]), sess'[s], last')]
    /\ pages' = <<>>
    /\ UNCHANGED <<debug, ctx>>

\* the steps of the request of session s, from its handler to db.close()
Run(s) ==
    \/ web_index(s)
    \/ web_notes_create_submit(s)
    \/ web_notes_edit_form(s)
    \/ web_notes_edit_submit(s)
    \/ web_notes_edit_submit_except(s)
    \/ web_notes_delete(s)
    \/ commit_create_note(s) /\ Handling(s)
    \/ commit_update_note(s) /\ Handling(s)
    \/ commit_delete_note(s) /\ Handling(s)
    \/ refresh(s) /\ Handling(s)
    \/ get_db_finally(s)

WebInit ==
    /\ vInput = <<>>
    /\ vResult = NotValidated
    /\ EmptyService
    /\ pages = <<>>
    /\ debug \in BOOLEAN
    /\ req = [s \in Sessions |-> NoRequest]
    /\ ctx = NoContext

WebNext ==
    \/ \E s \in Sessions : \E h \in Handlers : \E p \in Params(h) : get_db(s, h, p)
    \/ \E s \in Sessions : web_index(s)
    \/ \E s \in Sessions : web_notes_create_submit(s)
    \/ \E s \in Sessions : web_notes_edit_form(s)
    \/ \E s \in Sessions : web_notes_edit_submit(s)
    \/ \E s \in Sessions : web_notes_edit_submit_except(s)
    \/ \E s \in Sessions : web_notes_delete(s)
    \/ \E s \in Sessions : commit_create_note(s) /\ Handling(s)
    \/ \E s \in Sessions : commit_update_note(s) /\ Handling(s)
    \/ \E s \in Sessions : commit_delete_note(s) /\ Handling(s)
    \/ \E s \in Sessions : refresh(s) /\ Handling(s)
    \/ \E s \in Sessions : get_db_finally(s)

\* the server runs every handler, and the exit code of its dependency, to
\* the end
SpecWeb ==
    WebInit /\ [][WebNext]_vars /\ \A s \in Sessions : WF_vars(Run(s))

----------------------------------------------------------------------------
(* get_db_context: app/database.py. A with-statement enters the context    *)
(* manager, its block adds notes to the session and ends or raises, and    *)
(* the context manager commits or rolls back and closes the session.       *)

\* what the managed block can raise: exceptions that derive from Exception,
\* and one (KeyboardInterrupt, like SystemExit) that derives from
\* BaseException only
BlockRaises == {"ValueError", "OperationalError", "KeyboardInterrupt"}

\* except Exception: the clause catches e
IsException(e) == e \in {"ValueError", "OperationalError"}

\* the contents the block makes notes of
BlockContents == {NoteCreate(raw).value : raw \in RawInputs}

\* the context manager calls method m of the session
CalledOn(c, m) == [c EXCEPT !.calls = Append(@, m)]

\* the INSERTs of a commit: one row per pending note, each under a new id
RECURSIVE FlushAll(_, _, _, _)
FlushAll(st, used, notes, ts) ==
    IF notes = <<>> THEN [store |-> st, used |-> used]
    ELSE LET id == CHOOSE i \in uuid4(used) : TRUE
         IN  FlushAll(FlushInsert(st, id, Head(notes).content, ts),
                      used \cup {id}, Tail(notes), ts)

\* a step of the with-statement: the service and the web layer are not
\* involved
ContextStep ==
    UNCHANGED <<vInput, vResult, clock, nreq, sess, last, pages, debug, req>>

\* db = SessionLocal(); try: yield db
get_db_context(c) ==
    [NoContext EXCEPT !.pc = "block", !.runs = c.runs + 1]

get_db_context_enter ==
    /\ ctx.pc \in {"none", "closed"}
    /\ ctx.runs < MaxRuns
    /\ ctx' = get_db_context(ctx)
    /\ ContextStep /\ UNCHANGED <<store, usedIds>>

\* the block: db.add(Note(content=...))
block_add(content) ==
    /\ ctx.pc = "block"
    /\ Cardinality(usedIds) + Len(ctx.pending) < MaxNotes
    /\ ctx' = [ctx EXCEPT !.pending = Append(@, Note(content))]
    /\ ContextStep /\ UNCHANGED <<store, usedIds>>

\* the block completes: the generator goes on after the yield
block_return ==
    /\ ctx.pc = "block"
    /\ ctx' = [ctx EXCEPT !.pc = "commit", !.block = "return"]
    /\ ContextStep /\ UNCHANGED <<store, usedIds>>

\* the block raises e: the generator sees e at the yield
get_db_context_throw(c, e) ==
    [c EXCEPT !.pc = IF IsException(e) THEN "except" ELSE "finally",
              !.block = "raise", !.raised = e]

block_raise(e) ==
    /\ ctx.pc = "block"
    /\ ctx' = get_db_context_throw(ctx, e)
    /\ ContextStep /\ UNCHANGED <<store, usedIds>>

\* db.commit() after the yield: the pending notes are inserted, or the
\* commit raises
get_db_context_commit ==
    /\ ctx.pc = "commit"
    /\ \/ LET w == FlushAll(store, usedIds, ctx.pending, clock)
          IN  /\ store' = w.store
              /\ usedIds' = w.used
              /\ ctx' = [CalledOn(ctx, "commit") EXCEPT !.pc = "finally",
                                                         !.pending = <<>>]
       \/ /\ ctx' = [CalledOn(ctx, "commit") EXCEPT !.pc = "except",
                                                     !.raised = "OperationalError"]
          /\ UNCHANGED <<store, usedIds>>
    /\ ContextStep

\* except Exception: without its db.rollback()
get_db_context_except_without_rollback(c) ==
    [c EXCEPT !.pc = "finally", !.pending = <<>>]

\* except Exception: db.rollback(); raise
get_db_context_except(c) ==
    [CalledOn(c, "rollback") EXCEPT !.pc = "finally", !.pending = <<>>]

get_db_context_rollback ==
    /\ ctx.pc = "except"
    /\ ctx' = get_db_context_except(ctx)
    /\ ContextStep /\ UNCHANGED <<store, usedIds>>

\* finally: db.close(); the with-statement ends normally or with the
\* exception in flight
get_db_context_finally(c) ==
    [CalledOn(c, "close") EXCEPT !.pc = "closed", !.pending = <<>>,
                                 !.exit = IF c.raised = "" THEN "return" ELSE "raise"]

get_db_context_close ==
    /\ ctx.pc = "finally"
    /\ ctx' = get_db_context_finally(ctx)
    /\ ContextStep /\ UNCHANGED <<store, usedIds>>

ContextNext ==
    \/ Tick /\ UNCHANGED webVars
    \/ get_db_context_enter
    \/ \E content \in BlockContents : block_add(content)
    \/ block_return
    \/ \E e \in BlockRaises : block_raise(e)
    \/ get_db_context_commit
    \/ get_db_context_rollback
    \/ get_db_context_close

SpecContext == Init /\ [][ContextNext]_vars

----------------------------------------------------------------------------
(* Properties of the schema *)

AllWhitespace(s) == \A i \in 1..Len(s) : s[i].ch \in Whitespace

\* v is s without its leading and trailing whitespace, and nothing else is
\* changed: s = (whitespace) v (whitespace), and v neither starts nor ends
\* with whitespace
IsStripped(v, s) ==
    \E i \in 0..Len(s) : \E j \in i..Len(s) :
        /\ v = SubSeq(s, i + 1, j)
        /\ \A k \in (1..i) \cup ((j + 1)..Len(s)) : s[k].ch \in Whitespace
        /\ v # <<>> => v[1].ch \notin Whitespace /\ v[Len(v)].ch \notin Whitespace

\* the length of s.strip()
StrippedLen(s) ==
    LET parts == {SubSeq(s, i + 1, j) : i \in 0..Len(s), j \in 0..Len(s)}
    IN  len(CHOOSE v \in parts : IsStripped(v, s))

Validated == vResult.schema # "none"

TooLongError(e) ==
    \/ e.type = "string_too_long"
    \/ e.type = "value_error" /\ e.msg = "Note content cannot exceed 5000 characters"

\* C1 (as stated): every s, of any raw length, whose s.strip() is non-empty
\* and at most 5000 characters long validates, and the validated content is
\* s.strip()
C1_AnyRawLength ==
    (Validated /\ ~AllWhitespace(vInput) /\ StrippedLen(vInput) <= 5000)
        => vResult.ok /\ IsStripped(vResult.value, vInput)

\* C1 (amended): every s of raw length at most 5000 whose s.strip() is
\* non-empty validates under NoteCreate and NoteUpdate, and the validated
\* content is s with exactly its leading and trailing whitespace removed
C1_StripWithinLimit ==
    (Validated /\ ~AllWhitespace(vInput) /\ len(vInput) <= 5000)
        => vResult.ok /\ IsStripped(vResult.value, vInput)

\* a string of exactly 5000 raw characters that starts with whitespace was
\* validated and came back stripped
C1_Witness ==
    /\ Validated /\ vResult.ok
    /\ len(vInput) = 5000
    /\ vInput[1].ch \in Whitespace
    /\ vResult.value # vInput

\* C2: every empty or whitespace-only s fails validation with an error on
\* the content field and no validated value; validation never yields an empty
\* or whitespace-only content
C2_BlankRejected ==
    Validated =>
        /\ AllWhitespace(vInput) =>
              /\ ~vResult.ok
              /\ vResult.value = <<>>
              /\ Len(vResult.errors) >= 1
              /\ \A i \in 1..Len(vResult.errors) : vResult.errors[i].loc = "content"
        /\ vResult.ok => vResult.value # <<>> /\ ~AllWhitespace(vResult.value)

\* a non-empty whitespace-only string within the length limit was rejected
\* by NoteUpdate
C2_Witness ==
    /\ vResult.schema = "NoteUpdate"
    /\ vInput # <<>> /\ AllWhitespace(vInput) /\ len(vInput) <= 5000
    /\ ~vResult.ok

\* C3: every s whose stripped length exceeds 5000 fails with exactly one
\* error, a too-long error on the content field; content of exactly 5000
\* characters (already stripped) is accepted unchanged
C3_TooLongRejected ==
    Validated =>
        /\ StrippedLen(vInput) > 5000 =>
              /\ ~vResult.ok
              /\ Len(vResult.errors) = 1
              /\ TooLongError(vResult.errors[1])
              /\ vResult.errors[1].loc = "content"
        /\ (len(vInput) = 5000 /\ IsStripped(vInput, vInput)) =>
              vResult.ok /\ vResult.value = vInput

\* a string of stripped length 5001 was rejected
C3_Witness ==
    /\ Validated /\ ~vResult.ok
    /\ StrippedLen(vInput) = 5001

----------------------------------------------------------------------------
(* Properties of the service *)

\* session s returned from (or raised in) its call in this step
Left(s) == sess[s].pc # "idle" /\ sess'[s].pc = "idle"
LeftAtOnce(s) == sess[s].pc = "idle" /\ last'.s = s /\ last' # last

\* the commit of session s went through in this step
Committed(s, method) ==
    /\ sess[s].op = method /\ sess[s].pc = "commit"
    /\ \/ sess'[s].pc = "refresh"
       \/ sess'[s].pc = "idle" /\ last'.result.kind # "raise"

\* the commit of session s failed in this step
CommitFailed(s) ==
    /\ sess[s].pc = "commit" /\ sess'[s].pc = "idle"
    /\ last'.result.kind = "raise"

\* C4: round trip: once create_note has committed validated content c, the
\* record get_note_by_id finds under the new id has that id and the content
\* c.strip(), whatever else is stored; the note create_note returns is the
\* record stored under its id
C4_RoundTrip ==
    [][\A s \in Sessions :
          /\ Committed(s, "create_note") =>
                LET id == sess'[s].obj.id
                    got == get_note_by_id(store', id)
                IN  /\ id # NoneId
                    /\ got.id = id
                    /\ IsStripped(got.content, sess[s].arg.raw)
                    /\ \A i \in DOMAIN store : store'[i] = store[i]
          /\ (sess[s].op = "create_note" /\ Left(s) /\ last'.result.kind = "Note") =>
                /\ last'.result.note.id = sess[s].obj.id
                /\ get_note_by_id(store', sess[s].obj.id) = last'.result.note
    ]_vars

\* create_note returned a note whose content is the stripped input, while
\* another note is stored as well
C4_Witness ==
    /\ last.op = "create_note" /\ last.result.kind = "Note"
    /\ Cardinality(DOMAIN store) = 2
    /\ last.result.note.content # last.arg.raw
    /\ get_note_by_id(store, last.result.note.id).content = strip(last.arg.raw)

\* C5: delete_note on a present id removes exactly that record, commits and
\* returns True; get_note_by_id then finds nothing under the id and every
\* other note is unchanged
C5_DeleteRemovesOne ==
    [][\A s \in Sessions :
          /\ Committed(s, "delete_note") =>
                LET id == sess[s].arg.id
                IN  /\ last'.s = s /\ last'.result.kind = "True"
                    /\ last'.calls.delete = 1 /\ last'.calls.commit = 1
                    /\ last'.calls.rollback = 0
                    /\ DOMAIN store' = DOMAIN store \ {id}
                    /\ \A i \in DOMAIN store' : store'[i] = store[i]
                    /\ get_note_by_id(store', id) = NoNote
          /\ (sess[s].op = "delete_note" /\ Left(s)) =>
                last'.result.kind \in {"True", "raise"}
    ]_vars

\* delete_note returned True and another note is still stored
C5_Witness ==
    /\ last.op = "delete_note" /\ last.result.kind = "True"
    /\ last.arg.id \notin DOMAIN store
    /\ DOMAIN store # {}

\* C6: get_note_by_id, update_note and delete_note on an id that is not
\* stored give None, None and False, issue no commit, rollback or delete on
\* the session and leave the store as it is (unless the query itself fails)
AbsentSignal(method) ==
    IF method = "delete_note" THEN "False" ELSE "None"

C6_NotFound ==
    [][/\ \A s \in Sessions :
          (sess[s].pc = "idle" /\ sess'[s].pc # "idle") =>
             (sess'[s].op = "create_note" \/ sess'[s].arg.id \in DOMAIN store)
       /\ \A s \in Sessions :
          (LeftAtOnce(s) /\ last'.op \in {"get_note_by_id", "update_note", "delete_note"}
              /\ last'.arg.id \notin DOMAIN store) =>
             \/ last'.result = Raised("OperationalError")
             \/ /\ last'.result = Returned(AbsentSignal(last'.op), NoNote)
                /\ last'.calls = NoCalls
                /\ store' = store
    ]_vars

\* update_note on an id that is not stored returned None while another note
\* is stored
C6_Witness ==
    /\ last.op = "update_note" /\ last.result.kind = "None"
    /\ last.arg.id \notin DOMAIN store
    /\ DOMAIN store # {}

\* C7: when commit fails in create_note, update_note or delete_note, rollback
\* is called exactly once, the error of the commit is raised to the caller,
\* and the store is as it was before the operation began (only a commit that
\* goes through changes the store)
CommitErrors(s) ==
    IF sess[s].op = "update_note" THEN UpdateCommitErrors(store, sess[s])
    ELSE {"OperationalError"}

C7_CommitFailure ==
    [][/\ \A s \in Sessions :
             CommitFailed(s) =>
                /\ last'.s = s
                /\ last'.calls.commit = 1
                /\ last'.calls.rollback = 1
                /\ last'.result.error \in CommitErrors(s)
                /\ store' = store
       /\ store' # store =>
             \E s \in Sessions : \E m \in {"create_note", "update_note", "delete_note"} :
                Committed(s, m)
    ]_vars

\* the commit of an update_note failed and the error was raised after one
\* rollback
C7_Witness ==
    /\ last.op = "update_note" /\ last.result.kind = "raise"
    /\ last.calls.commit = 1 /\ last.calls.rollback = 1
    /\ last.arg.id \in DOMAIN store
    /\ store[last.arg.id].content # last.arg.content

\* C8 (as stated): whenever create_note raises a storage error, at add, at
\* commit or at the refresh after the commit, no new record is persisted
C8_NoPartialState ==
    (last.op = "create_note" /\ last.result.kind = "raise")
        => last.obj.id \notin DOMAIN store

\* C9: no step changes the created_at of a stored note, whether an
\* update_note succeeds or fails; the note update_note returns carries the
\* created_at the note was loaded with
C9_CreatedAtFrozen ==
    [][/\ \A i \in DOMAIN store \cap DOMAIN store' :
             store'[i].created_at = store[i].created_at
       /\ \A s \in Sessions :
             (sess[s].op = "update_note" /\ Left(s) /\ last'.result.kind = "Note") =>
                last'.result.note.created_at = sess[s].loaded.created_at
    ]_vars

\* update_note returned a note whose updated_at is later than its created_at
C9_Witness ==
    /\ last.op = "update_note" /\ last.result.kind = "Note"
    /\ last.result.note.updated_at > last.result.note.created_at

\* the store clock has passed the note's updated_at when the update writes
ClockAdvanced(s) ==
    /\ sess[s].obj.id \in DOMAIN store
    /\ clock > store[sess[s].obj.id].updated_at

\* the store clock had passed the note's updated_at when the transaction of
\* the update began
ClockAdvancedAtBegin(s) ==
    /\ sess[s].obj.id \in DOMAIN store
    /\ sess[s].txStart > store[sess[s].obj.id].updated_at

----------------------------------------------------------------------------
(* Invariants of the store *)

\* C11: in every reachable state, after any sequence of create_note,
\* update_note and delete_note, every stored note has both timestamps set and
\* created_at <= updated_at
C11_CreatedBeforeUpdated ==
    \A i \in DOMAIN store :
        /\ store[i].created_at # NoneTime
        /\ store[i].updated_at # NoneTime
        /\ store[i].created_at <= store[i].updated_at

\* an update_note has returned and left a note whose updated_at is later
\* than its created_at
C11_Witness ==
    /\ last.op = "update_note" /\ last.result.kind = "Note"
    /\ \E i \in DOMAIN store : store[i].created_at < store[i].updated_at

\* C12: in every reachable state, after any sequence of create_note,
\* update_note and delete_note called with schema-validated data, every
\* stored content is non-empty, not whitespace-only and equal to its own
\* strip()
C12_ContentNormalized ==
    \A i \in DOMAIN store :
        /\ store[i].content # <<>>
        /\ ~AllWhitespace(store[i].content)
        /\ strip(store[i].content) = store[i].content
        /\ IsStripped(store[i].content, store[i].content)

\* two notes are stored, one written by create_note and one rewritten by an
\* update_note whose raw input carried surrounding whitespace
C12_Witness ==
    /\ last.op = "update_note" /\ last.result.kind = "Note"
    /\ last.arg.raw # last.arg.content
    /\ last.arg.id \in DOMAIN store
    /\ store[last.arg.id].content = last.arg.content
    /\ Cardinality(DOMAIN store) = 2

----------------------------------------------------------------------------
(* Updates *)

\* the row of the note is still as the update_note of session s loaded it
AsLoaded(s) ==
    /\ sess[s].arg.id \in DOMAIN store
    /\ NoteOf(sess[s].arg.id, store[sess[s].arg.id]) = sess[s].loaded

\* C13: when the commit of update_note(id, data) on a present id goes
\* through, the set of stored ids and every other note are unchanged and the
\* note (as the call found it) now holds the stripped new content; the call
\* then returns, after exactly one commit and no rollback, the record stored
\* under the same id
C13_UpdateReplacesContent ==
    [][\A s \in Sessions :
          /\ Committed(s, "update_note") =>
                LET id == sess[s].arg.id
                IN  /\ DOMAIN store' = DOMAIN store
                    /\ \A i \in DOMAIN store \ {id} : store'[i] = store[i]
                    /\ AsLoaded(s) =>
                          /\ store'[id].content = strip(sess[s].arg.raw)
                          /\ IsStripped(store'[id].content, sess[s].arg.raw)
          /\ (sess[s].op = "update_note" /\ Left(s) /\ last'.result.kind = "Note") =>
                /\ last'.result.note.id = sess[s].arg.id
                /\ last'.calls.commit = 1 /\ last'.calls.rollback = 0
                /\ last'.result.note = get_note_by_id(store', sess[s].arg.id)
    ]_vars

\* update_note rewrote one of two stored notes and returned it with the
\* stripped new content
C13_Witness ==
    /\ last.op = "update_note" /\ last.result.kind = "Note"
    /\ last.result.note.id = last.arg.id
    /\ last.result.note.content = strip(last.arg.raw)
    /\ last.result.note.content # last.arg.raw
    /\ last.result.note.updated_at > last.result.note.created_at
    /\ Cardinality(DOMAIN store) = 2

\* C14 (as stated): whenever the commit of an update_note goes through, no
\* version check having rejected it, the stored content of the note is the
\* content of that update (the update whose commit happened last)
C14_LastWriteWins ==
    [][\A s \in Sessions :
          (Committed(s, "update_note") /\ sess[s].arg.id \in DOMAIN store') =>
             store'[sess[s].arg.id].content = sess[s].arg.content
    ]_vars

----------------------------------------------------------------------------
(* Failures and other sessions *)

WriteOps == {"create_note", "update_note", "delete_note"}

\* the commit of the call in flight on session t can go through
CanCommit(t) ==
    /\ sess[t].pc = "commit"
    /\ sess[t].op = "create_note" => uuid4(usedIds) # {}
    /\ sess[t].op = "update_note" =>
          (Modified(sess[t]) => sess[t].obj.id \in DOMAIN store)

\* C20: when the create_note, update_note or delete_note of one session
\* fails and is rolled back, the stored notes are unchanged, the call in
\* flight on any other session is untouched and its commit can go through
\* as before; a commit that goes through stores the session's own content
C20_FailureIsolated ==
    [][/\ \A s \in Sessions :
             (last'.s = s /\ last'.op \in WriteOps /\ last'.result.kind = "raise") =>
                /\ store' = store
                /\ usedIds' = usedIds
                /\ \A t \in Sessions \ {s} :
                      /\ sess'[t] = sess[t]
                      /\ CanCommit(t) => CanCommit(t)'
       /\ \A t \in Sessions :
             /\ Committed(t, "create_note") =>
                   store'[sess'[t].obj.id].content = sess[t].arg.content
             /\ (Committed(t, "update_note") /\ Modified(sess[t])) =>
                   store'[sess[t].arg.id].content = sess[t].arg.content
    ]_vars

\* the commit of one session failed and was rolled back while the update of
\* another session, which changes a stored note, waits for its commit
C20_Witness ==
    /\ last.op \in WriteOps /\ last.result.kind = "raise"
    /\ last.calls.commit = 1 /\ last.calls.rollback = 1
    /\ \E t \in Sessions \ {last.s} :
          /\ sess[t].op = "update_note" /\ CanCommit(t)
          /\ Modified(sess[t])
          /\ store[sess[t].arg.id].content = sess[t].loaded.content

----------------------------------------------------------------------------
(* Properties of listing *)

PageIds(p) == {p.notes[k].id : k \in 1..Len(p.notes)}

Min(a, b) == IF a <= b THEN a ELSE b
Max(a, b) == IF a >= b THEN a ELSE b

\* C15 (as stated): when at least 2N notes are stored and the store is not
\* modified between the calls, get_all_notes(0, N) and get_all_notes(N, N)
\* return no id in common
C15_PagesDisjoint ==
    (/\ Len(pages) = 2
     /\ pages[1].skip = 0 /\ pages[1].limit >= 1
     /\ pages[2].skip = pages[1].limit /\ pages[2].limit = pages[1].limit
     /\ Cardinality(DOMAIN store) >= 2 * pages[1].limit)
        => PageIds(pages[1]) \cap PageIds(pages[2]) = {}

\* C16: get_all_notes(skip, limit) on a store of n notes returns exactly
\* min(limit, max(0, n - skip)) notes, all distinct and all as stored; it
\* returns the empty list when skip >= n (the empty store included), the
\* only error it raises being a failure of the store; with the defaults
\* (skip 0, limit 100) it returns all n notes of a store of at most 100
C16_PageSize ==
    /\ \A k \in 1..Len(pages) :
          LET p == pages[k]
              n == Cardinality(DOMAIN store)
          IN  /\ Len(p.notes) = Min(p.limit, Max(0, n - p.skip))
              /\ Cardinality(PageIds(p)) = Len(p.notes)
              /\ \A j \in 1..Len(p.notes) :
                    /\ p.notes[j].id \in DOMAIN store
                    /\ p.notes[j] = NoteOf(p.notes[j].id, store[p.notes[j].id])
              /\ p.skip >= n => p.notes = <<>>
              /\ (p.skip = default_skip /\ p.limit = default_limit /\ n <= 100)
                    => Len(p.notes) = n
    /\ (last.op = "get_all_notes" /\ last.result.kind = "raise")
          => last.result.error = "OperationalError"
    /\ default_skip = 0 /\ default_limit = 100

\* on a store of two notes, a call with skip 1 and limit 1 returned one note
\* and a call with an out-of-range skip returned the empty list
C16_Witness ==
    /\ Cardinality(DOMAIN store) = 2
    /\ Len(pages) = 2
    /\ pages[1].skip = 1 /\ pages[1].limit = 1 /\ Len(pages[1].notes) = 1
    /\ pages[2].skip = 2 /\ pages[2].limit = default_limit /\ pages[2].notes = <<>>

----------------------------------------------------------------------------
(* Properties of the web interface *)

\* the service works on the session of s in this step
ServiceStep(s) == sess'[s] # sess[s] \/ last'.s = s

\* C17: every request that got a session from get_db has it closed exactly
\* once, eventually, however its handler exits (normal return, HTTP error,
\* rejected request, uncaught exception); close is called only once the
\* handler is left and no service call runs on the session outside the
\* handler
C17_SessionClosedOnce ==
    /\ [](\A s \in Sessions :
            /\ req[s].closes = IF req[s].pc = "closed" THEN 1 ELSE 0
            /\ req[s].pc # "handler" => sess[s] = Idle)
    /\ [][\A s \in Sessions :
            /\ ServiceStep(s) => req[s].pc = "handler"
            /\ req'[s].closes > req[s].closes =>
                  req[s].pc = "responded" /\ req'[s].pc = "closed"
            /\ (req[s].pc = "responded" /\ req'[s] # req[s]) =>
                  req'[s].pc = "closed" /\ req'[s].exit = req[s].exit
         ]_vars
    /\ \A s \in Sessions :
          (req[s].pc \in {"handler", "responded"}) ~> (req[s].pc = "closed")

\* the session of a request that ended in an HTTP error and the session of a
\* request whose handler returned have both been closed, once each
C17_Witness ==
    \E s, t \in Sessions :
        /\ req[s].pc = "closed" /\ req[s].exit = "HTTPException" /\ req[s].closes = 1
        /\ req[t].pc = "closed" /\ req[t].exit = "return" /\ req[t].closes = 1

\* the content of request r fails schema validation
InvalidContent(r) ==
    /\ r.handler \in {"web_notes_create_submit", "web_notes_edit_submit"}
    /\ Form(r.content)
    /\ ~NoteBase(strip(r.content)).ok

\* C18: on the create and the edit path the validation error is raised
\* before any query, add or commit is issued on the session: the step that
\* raises it is the first of the handler and calls no service method; the
\* request creates and modifies no record (the only call made after the
\* error is the read of the edit path), and invalid content always ends in
\* the validation error
C18_ValidationFirst ==
    /\ [](\A s \in Sessions :
            /\ (req[s].pc \in {"handler", "responded"} /\ InvalidContent(req[s])) =>
                  /\ sess[s] = Idle
                  /\ req[s].pc = "responded" => req[s].invalid
            /\ (req[s].pc = "responded" /\ ~Form(req[s].content)
                   /\ req[s].handler \in {"web_notes_create_submit",
                                           "web_notes_edit_submit"}) =>
                  req[s].ops = 0 /\ req[s].status = 422)
    /\ [][\A s \in Sessions :
            /\ (req'[s].invalid /\ ~req[s].invalid) =>
                  /\ req[s].ops = 0 /\ req'[s].ops = 0
                  /\ last' = NoCall
                  /\ store' = store /\ sess' = sess /\ nreq' = nreq
            /\ (req[s].invalid /\ last'.s = s) =>
                  /\ last'.op = "get_note_by_id"
                  /\ last'.calls = NoCalls
                  /\ store' = store
         ]_vars

\* with a note stored, an edit with whitespace-only content and a create
\* with too long content were both answered 400
C18_Witness ==
    \E s, t \in Sessions :
        /\ req[s].pc = "responded" /\ req[s].handler = "web_notes_edit_submit"
        /\ req[s].invalid /\ req[s].status = 400 /\ req[s].ops = 1
        /\ req[s].note_id \in DOMAIN store
        /\ req[t].pc = "responded" /\ req[t].handler = "web_notes_create_submit"
        /\ req[t].invalid /\ req[t].status = 400 /\ req[t].ops = 0
        /\ len(req[t].content) > max_length

\* C19 (as stated): with debug disabled, the response to a request whose
\* storage operation failed is a 500 that shows no text of the storage error
C19_NoRawError ==
    \A s \in Sessions :
        (req[s].pc = "responded" /\ req[s].failed /\ ~debug) =>
            req[s].status = 500 /\ req[s].exposes = ""

----------------------------------------------------------------------------
(* Identity of notes *)

\* C21: ids are unique and immutable: every stored note is filed under the
\* non-null id it carries, an id handed out by uuid4; the INSERT of
\* create_note adds one row under an id that was never assigned before and
\* create_note returns the note with that id; no step of update_note changes
\* the set of stored ids or the id of the note it works on, and the note it
\* returns has the id it was asked for
C21_IdsUniqueImmutable ==
    /\ [](/\ NoneId \notin DOMAIN store
          /\ DOMAIN store \subseteq usedIds
          /\ \A i \in DOMAIN store : NoteOf(i, store[i]).id = i)
    /\ [][\A s \in Sessions :
            /\ Committed(s, "create_note") =>
                  LET id == sess'[s].obj.id
                  IN  /\ id # NoneId
                      /\ id \notin usedIds
                      /\ id \notin DOMAIN store
                      /\ DOMAIN store' = DOMAIN store \cup {id}
                      /\ Cardinality(DOMAIN store') = Cardinality(DOMAIN store) + 1
            /\ (sess[s].op = "create_note" /\ Left(s) /\ last'.result.kind = "Note") =>
                  /\ last'.result.note.id # NoneId
                  /\ last'.result.note.id = sess[s].obj.id
            /\ (sess[s].op = "update_note" /\ sess'[s] # sess[s]) =>
                  /\ DOMAIN store' = DOMAIN store
                  /\ sess'[s].pc # "idle" => sess'[s].obj.id = sess[s].obj.id
                  /\ last'.result.kind = "Note" =>
                        last'.result.note.id = sess[s].arg.id
         ]_vars

\* two notes are stored under different ids and update_note has just
\* returned one of them
C21_Witness ==
    /\ Cardinality(DOMAIN store) = 2
    /\ last.op = "update_note" /\ last.result.kind = "Note"
    /\ last.result.note.id = last.arg.id
    /\ last.result.note.content # store[CHOOSE i \in DOMAIN store : i # last.arg.id].content

\* C22: the INSERT of create_note stores the validated content under a
\* non-null id with both timestamps set and equal; the note create_note
\* returns is the row stored under that id, with its id and its timestamps
\* set, created at the time of the INSERT and not updated before it was
\* created; when create_note is the only call made so far the returned note
\* has the validated content and created_at = updated_at; and the only step
\* that changes a stored row (its content or its updated_at) is the commit
\* of an update_note that changes the content, so the same holds of every
\* returned note unless an update of it has been committed in the meantime
C22_CreatedNote ==
    [][/\ \A s \in Sessions :
            /\ Committed(s, "create_note") =>
                  LET id == sess'[s].obj.id
                  IN  /\ id # NoneId /\ id \in DOMAIN store'
                      /\ store'[id].content = sess[s].arg.content
                      /\ store'[id].content = NoteCreate(sess[s].arg.raw).value
                      /\ store'[id].created_at # NoneTime
                      /\ store'[id].updated_at = store'[id].created_at
                      /\ sess'[s].txStart = store'[id].created_at
            /\ (sess[s].op = "create_note" /\ Left(s) /\ last'.result.kind = "Note") =>
                  LET note == last'.result.note
                  IN  /\ note.id # NoneId
                      /\ note = NoteOf(note.id, store[note.id])
                      /\ note.created_at # NoneTime /\ note.updated_at # NoneTime
                      /\ note.created_at = sess[s].txStart
                      /\ note.updated_at >= note.created_at
                      /\ nreq = 1 =>
                            /\ note.content = sess[s].arg.content
                            /\ note.updated_at = note.created_at
       /\ \A i \in DOMAIN store \cap DOMAIN store' :
             store'[i] # store[i] =>
                \E s \in Sessions : /\ Committed(s, "update_note")
                                    /\ sess[s].obj.id = i
                                    /\ Modified(sess[s])
                                    /\ store'[i].created_at = store[i].created_at
    ]_vars

\* create_note has returned a note with the stripped content and equal
\* timestamps, and time had passed since the store was set up
C22_Witness ==
    /\ last.op = "create_note" /\ last.result.kind = "Note"
    /\ last.result.note.id # NoneId
    /\ last.result.note.content = strip(last.arg.raw)
    /\ last.result.note.content # last.arg.raw
    /\ last.result.note.created_at = last.result.note.updated_at
    /\ last.result.note.created_at > 0

----------------------------------------------------------------------------
(* Properties of the handlers *)

\* the handlers of form submissions
PostHandlers == {"web_notes_create_submit", "web_notes_edit_submit",
                 "web_notes_delete"}

\* the create_note, update_note or delete_note of session s returns with
\* success in this step
Succeeded(s) ==
    /\ last'.s = s
    /\ \/ last'.op \in {"create_note", "update_note"} /\ last'.result.kind = "Note"
       \/ last'.op = "delete_note" /\ last'.result.kind = "True"

\* C23: POST-redirect-GET: the step in which the create, update or delete of
\* a form submission succeeds answers it with a 303 redirect to "/" and no
\* page; a redirect is sent in no other step; and a page answers a form
\* submission only after a validation error (400) or a storage error (500)
C23_PostRedirectGet ==
    /\ [](\A s \in Sessions :
            (req[s].pc = "responded" /\ req[s].handler \in PostHandlers) =>
               /\ req[s].body = "page" =>
                     /\ req[s].invalid \/ req[s].failed
                     /\ req[s].status = IF req[s].failed THEN 500 ELSE 400
                     /\ req[s].location = ""
               /\ req[s].body = "redirect" =>
                     ~req[s].invalid /\ ~req[s].failed)
    /\ [][\A s \in Sessions :
            /\ (Succeeded(s) /\ req[s].handler \in PostHandlers) =>
                  /\ req'[s].pc = "responded"
                  /\ req'[s].status = 303
                  /\ req'[s].body = "redirect"
                  /\ req'[s].location = "/"
            /\ (req'[s].body = "redirect" /\ req[s].body # "redirect") =>
                  /\ Succeeded(s)
                  /\ req[s].handler \in PostHandlers
                  /\ req'[s].status = 303 /\ req'[s].location = "/"
         ]_vars

\* an edit submission has been answered with the redirect while a create
\* submission whose commit failed has been answered with the form page
C23_Witness ==
    \E s, t \in Sessions :
        /\ req[s].pc = "responded" /\ req[s].handler = "web_notes_edit_submit"
        /\ req[s].status = 303 /\ req[s].body = "redirect" /\ req[s].location = "/"
        /\ req[t].pc = "responded" /\ req[t].handler = "web_notes_create_submit"
        /\ req[t].status = 500 /\ req[t].body = "page" /\ req[t].failed

\* C24: a submission whose content the schema rejects in the create or the
\* edit submit handler is answered 400 with the form page, the error message
\* and the content exactly as it was received, unless the lookup by which the
\* edit handler fetches the note for the page raises a storage error; no step
\* of such a request changes the store
C24_ValidationErrorPage ==
    /\ [](\A s \in Sessions :
            (req[s].pc = "responded" /\ req[s].invalid /\ ~req[s].failed) =>
               /\ req[s].handler \in {"web_notes_create_submit",
                                      "web_notes_edit_submit"}
               /\ InvalidContent(req[s])
               /\ req[s].status = 400
               /\ req[s].body = "page"
               /\ req[s].message = "validation"
               /\ req[s].echo = req[s].content)
    /\ [][\A s \in Sessions :
            (req'[s].invalid /\ req'[s] # req[s]) => store' = store
         ]_vars

\* with a note stored, an edit of it with two blanks as content has been
\* answered 400 with the two blanks, not with the empty string they strip to
C24_Witness ==
    \E s \in Sessions :
        /\ req[s].pc = "responded" /\ req[s].handler = "web_notes_edit_submit"
        /\ req[s].note_id \in DOMAIN store
        /\ req[s].invalid /\ req[s].status = 400
        /\ req[s].echo = << [ch |-> " ", n |-> 2] >>
        /\ req[s].echo # strip(req[s].content)

\* C30: in the edit submit handler validation comes before the lookup: for
\* content the schema rejects, the first step of the handler raises the
\* validation error and calls no service method, whether or not the id is
\* stored; update_note is never called for such a request; the lookup of
\* the except clause then finds no note under an id that is not stored and
\* the request is answered 400 with the form page, never 404 (or, when that
\* lookup raises a storage error, 500)
C30_ValidationBeforeLookup ==
    /\ [](\A s \in Sessions :
            (req[s].handler = "web_notes_edit_submit" /\ InvalidContent(req[s])) =>
               /\ sess[s].op # "update_note"
               /\ req[s].status # 404
               /\ (req[s].pc = "responded" /\ ~req[s].failed) =>
                     /\ req[s].status = 400 /\ req[s].body = "page"
                     /\ req[s].ops = 1
               /\ (req[s].pc = "responded" /\ req[s].failed) => req[s].status = 500)
    /\ [][\A s \in Sessions :
            (req[s].handler = "web_notes_edit_submit" /\ InvalidContent(req[s])
                /\ req[s].pc = "handler" /\ req'[s] # req[s]) =>
               /\ store' = store
               /\ last'.op # "update_note"
               /\ req[s].branch = "try" =>
                     /\ last' = NoCall
                     /\ req'[s].branch = "except ValueError"
                     /\ req'[s].invalid /\ req'[s].ops = 0
               /\ req[s].branch # "try" =>
                     /\ last'.s = s /\ last'.op = "get_note_by_id"
                     /\ (req[s].note_id \notin DOMAIN store
                            /\ last'.result.kind # "raise") =>
                           /\ last'.result = Returned("None", NoNote)
                           /\ req'[s].status = 400
         ]_vars

\* with a note stored, an edit submission of whitespace for an id that is
\* not stored has been answered 400 after one lookup
C30_Witness ==
    \E s \in Sessions :
        /\ DOMAIN store # {}
        /\ req[s].pc = "responded" /\ req[s].handler = "web_notes_edit_submit"
        /\ req[s].note_id \notin DOMAIN store
        /\ AllWhitespace(req[s].content) /\ req[s].content # <<>>
        /\ req[s].invalid /\ req[s].status = 400 /\ req[s].ops = 1
        /\ last.op = "get_note_by_id" /\ last.result.kind = "None"

\* the handlers that look a note up by the id in the path
IdHandlers == {"web_notes_edit_form", "web_notes_edit_submit", "web_notes_delete"}

\* the request of session s makes its first service call in this step, for
\* an id that is not stored (the edit submit with content the schema accepts)
LooksUpAbsent(s) ==
    /\ At(s, req[s].handler) /\ req[s].handler \in IdHandlers
    /\ req'[s] # req[s]
    /\ req[s].note_id \notin DOMAIN store
    /\ req[s].handler = "web_notes_edit_submit" =>
          Form(req[s].content) /\ NoteUpdate(strip(req[s].content)).ok

\* C25: for an id that is not stored, the edit form, the edit submit with
\* valid content and the delete handler answer 404 in the step of their
\* service call, which makes no add, delete or commit and leaves the store
\* unchanged; the only other outcome is a storage error raised by the
\* lookup, which ends in a 500; a request that was answered 404 or had a
\* storage error is never answered with a redirect
C25_NotFound404 ==
    /\ [](\A s \in Sessions :
            (req[s].status = 404 \/ req[s].failed) => req[s].body # "redirect")
    /\ [][\A s \in Sessions :
            LooksUpAbsent(s) =>
               /\ store' = store
               /\ sess'[s] = Idle
               /\ last'.s = s /\ last'.calls.add = 0 /\ last'.calls.delete = 0
               /\ last'.calls.commit = 0
               /\ \/ /\ last'.result.kind # "raise"
                     /\ req'[s].pc = "responded"
                     /\ req'[s].status = 404
                     /\ req'[s].exit = "HTTPException"
                     /\ req'[s].body = "json"
                  \/ /\ last'.result.kind = "raise"
                     /\ req'[s].failed
                     /\ req'[s].pc = "responded" => req'[s].status = 500
         ]_vars

\* with a note stored, the edit submit of an id that is not stored and the
\* delete of that id have both been answered 404
C25_Witness ==
    \E s, t \in Sessions :
        /\ DOMAIN store # {}
        /\ req[s].pc = "responded" /\ req[s].handler = "web_notes_edit_submit"
        /\ req[s].status = 404 /\ req[s].note_id \notin DOMAIN store
        /\ req[t].pc = "responded" /\ req[t].handler = "web_notes_delete"
        /\ req[t].status = 404 /\ req[t].note_id = req[s].note_id

----------------------------------------------------------------------------
(* Properties of get_db_context *)

\* the number of calls of method m the context manager has made
Count(calls, m) == Cardinality({k \in 1..Len(calls) : calls[k] = m})

\* C26 (as stated): once the with-statement is over, the session was
\* committed first if the block completed normally; rollback was called and
\* the exception re-raised if the block or the commit raised; and close was
\* called exactly once, as the last call, after a commit or a rollback
C26_CommitOrRollbackThenClose ==
    ctx.pc = "closed" =>
        /\ ctx.block = "return" => ctx.calls[1] = "commit"
        /\ ctx.raised # "" => Count(ctx.calls, "rollback") = 1 /\ ctx.exit = "raise"
        /\ Count(ctx.calls, "close") = 1
        /\ ctx.calls[Len(ctx.calls)] = "close"
        /\ Len(ctx.calls) >= 2
        /\ ctx.calls[Len(ctx.calls) - 1] \in {"commit", "rollback"}

\* C26 (amended): a block that completes normally is followed by commit and
\* close, and the commit inserts the notes the block added; when the commit
\* raises, or the block raises an exception that derives from Exception,
\* rollback is called, the store is left as it was, the same exception
\* leaves the with-statement and close follows the rollback; when the block
\* raises an exception that derives from BaseException only, neither commit
\* nor rollback is called, the session is closed and the exception leaves
\* the with-statement; close is called exactly once, as the last call
C26_CommitOrRollbackThenCloseForException ==
    /\ [](/\ ctx.pc # "closed" => Count(ctx.calls, "close") = 0
          /\ ctx.pc = "closed" =>
               /\ (ctx.block = "return" /\ ctx.raised = "") =>
                     ctx.calls = <<"commit", "close">> /\ ctx.exit = "return"
               /\ (ctx.block = "return" /\ ctx.raised # "") =>
                     /\ ctx.calls = <<"commit", "rollback", "close">>
                     /\ ctx.exit = "raise"
               /\ (ctx.block = "raise" /\ IsException(ctx.raised)) =>
                     ctx.calls = <<"rollback", "close">> /\ ctx.exit = "raise"
               /\ (ctx.block = "raise" /\ ~IsException(ctx.raised)) =>
                     ctx.calls = <<"close">> /\ ctx.exit = "raise")
    /\ [][/\ (ctx.pc = "commit" /\ ctx'.pc = "finally") =>
                /\ Cardinality(DOMAIN store') =
                      Cardinality(DOMAIN store) + Len(ctx.pending)
                /\ \A i \in DOMAIN store : store'[i] = store[i]
                /\ \A k \in 1..Len(ctx.pending) :
                      \E i \in DOMAIN store' \ DOMAIN store :
                         store'[i].content = ctx.pending[k].content
          /\ (ctx.pc \in {"except", "finally"} /\ ctx' # ctx) =>
                store' = store /\ ctx'.raised = ctx.raised
          /\ (ctx.pc = "block" /\ ctx' # ctx) => store' = store
         ]_vars

\* a first with-statement has stored a note; in a second one the block
\* added a note and completed, the commit raised, and rollback and close
\* followed: the note of the second block is not stored
C26_Witness ==
    /\ ctx.pc = "closed" /\ ctx.runs = 2
    /\ ctx.block = "return" /\ ctx.raised = "OperationalError"
    /\ ctx.calls = <<"commit", "rollback", "close">>
    /\ Cardinality(DOMAIN store) = 1
    /\ Cardinality(usedIds) = 1

----------------------------------------------------------------------------
(* Properties of the read operations *)

ReadOps == {"get_note_by_id", "get_all_notes"}

\* C27: the step in which get_note_by_id or get_all_notes returns or raises
\* has called none of add, delete, commit and rollback on the session and
\* leaves the stored ids and every stored note as they were, whatever the
\* id, skip and limit, and whether or not the query failed
C27_ReadsArePure ==
    [][last'.op \in ReadOps =>
          /\ last'.calls = NoCalls
          /\ store' = store
          /\ usedIds' = usedIds
          /\ \A s \in Sessions : sess'[s].pc = sess[s].pc
      ]_vars

\* with two notes stored, get_note_by_id has returned one of them
C27_Witness ==
    /\ Cardinality(DOMAIN store) = 2
    /\ last.op = "get_note_by_id" /\ last.result.kind = "Note"
    /\ last.result.note = NoteOf(last.arg.id, store[last.arg.id])

----------------------------------------------------------------------------
(* Interleaved delete and update *)

\* the ids of notes that were stored and have been deleted
Deleted == usedIds \ DOMAIN store

\* C28: a deleted note does not come back: no step stores a row under the
\* id of a deleted note, so get_note_by_id finds nothing under it from then
\* on; the commit of an update_note that had looked the note up before the
\* delete committed leaves the store as it is, and that update_note ends by
\* raising, never by returning the note
C28_NoResurrection ==
    [][/\ \A i \in Deleted :
             i \notin DOMAIN store' /\ get_note_by_id(store', i) = NoNote
       /\ \A s \in Sessions :
             (sess[s].op = "update_note" /\ sess[s].obj.id \in Deleted
                 /\ sess'[s] # sess[s]) =>
                /\ store' = store
                /\ sess'[s].pc = "idle" => last'.result.kind = "raise"
      ]_vars

\* update_note had loaded a note that another session then deleted, and its
\* commit has raised StaleDataError: the note is still absent
C28_Witness ==
    /\ last.op = "update_note" /\ last.result = Raised("StaleDataError")
    /\ last.arg.id \in Deleted
    /\ last.calls.commit = 1 /\ last.calls.rollback = 1
    /\ get_note_by_id(store, last.arg.id) = NoNote

----------------------------------------------------------------------------
(* update_note given content that was not validated *)

\* content that Note.update_content rejects
Blank(content) == ~truthy(content) \/ ~truthy(strip(content))

\* C29: when update_note is given empty or whitespace-only content for a
\* stored note, the call ends in the step of its lookup: update_content
\* raises ValueError with the instance as it was loaded, update_note lets
\* the error through with no session call made (no commit, no rollback), and
\* the store is unchanged; the only other outcome is a storage error raised
\* by the lookup; ValueError is raised for such content only
C29_ModelRejectsBlank ==
    [][\A s \in Sessions :
          /\ (LeftAtOnce(s) /\ last'.op = "update_note" /\ Blank(last'.arg.content)
                 /\ last'.arg.id \in DOMAIN store) =>
                /\ store' = store
                /\ \/ /\ last'.result = Raised("ValueError")
                      /\ last'.calls = NoCalls
                      /\ last'.obj = NoteOf(last'.arg.id, store[last'.arg.id])
                   \/ last'.result = Raised("OperationalError")
          /\ (sess[s].pc = "idle" /\ sess'[s].op = "update_note") =>
                ~Blank(sess'[s].arg.content)
          /\ (last'.s = s /\ last'.result = Raised("ValueError")) =>
                /\ last'.op = "update_note"
                /\ Blank(last'.arg.content)
                /\ last'.calls.commit = 0 /\ last'.calls.rollback = 0
      ]_vars

\* update_note of a stored note with two blanks as content has raised
\* ValueError, time having passed since the note was created
C29_Witness ==
    /\ last.op = "update_note" /\ last.result = Raised("ValueError")
    /\ last.arg.content = << [ch |-> " ", n |-> 2] >>
    /\ last.arg.id \in DOMAIN store
    /\ store[last.arg.id].updated_at = store[last.arg.id].created_at
    /\ clock > store[last.arg.id].created_at

====
